---- MODULE Spec2Model ----
(***************************************************************************)
(* Cortical_Column: a cortical module integrated with a stochastic         *)
(* Runge-Kutta scheme of fourth order (src/Cortical_Column.h).             *)
(*                                                                         *)
(* The header holds the state of a column (eleven five-slot buffers, the   *)
(* input, the three constructed parameters, the noise container), the      *)
(* constants, and the inline helpers init, add_RK(vector&), add_RK_noise   *)
(* and set_input.  The bodies of iterate_ODE, set_RK, add_RK(void), the    *)
(* currents, the firing rates and the noise functions are only declared    *)
(* there; they are written here after sections 4.1 and 4.2 of the design   *)
(* description.                                                            *)
(*                                                                         *)
(* A double is a triple <<n, d, e>> standing for (n/d) * 2^e with n and d  *)
(* odd and coprime.  Arithmetic is exact while numerator and denominator   *)
(* stay below 2^LimBits and is cut to PrecBits significant bits beyond     *)
(* that, the way a double is cut to 53.                                    *)
(***************************************************************************)
EXTENDS Integers, Sequences, FiniteSets, TLC

(***************************************************************************)
(* Bounds of the model.                                                    *)
(***************************************************************************)
PrecBits == 12
LimBits == 12
MaxSteps == 2
MaxPairSteps == 1
NSeeds == 2
MaxInput == 1
MaxNum == 1

Lim == 2^LimBits

(***************************************************************************)
(* Arithmetic on doubles.                                                  *)
(***************************************************************************)
Abs(x) == IF x < 0 THEN -x ELSE x
Sgn(x) == IF x < 0 THEN -1 ELSE IF x > 0 THEN 1 ELSE 0
Min(a, b) == IF a <= b THEN a ELSE b

RECURSIVE GCD(_, _)
GCD(a, b) == IF b = 0 THEN a ELSE GCD(b, a % b)

\* the number of factors 2 of n > 0
TwoAdic(n) == CHOOSE t \in 0..30 : n % 2^t = 0 /\ n % 2^(t + 1) /= 0

Zero == <<0, 1, 0>>

\* the element of a singleton; an operator written The({F(a) : a \in {x}})
\* evaluates its argument x once, as a function call does
The(S) == CHOOSE r \in S : TRUE

\* the canonical triple of n/d * 2^e (d > 0)
Canon(n, d, e) ==
  IF n = 0 THEN Zero
  ELSE LET tn == TwoAdic(Abs(n))
           td == TwoAdic(d)
           n1 == n \div (2^tn)
           d1 == d \div (2^td)
           g  == GCD(Abs(n1), d1)
       IN  <<n1 \div g, d1 \div g, e + tn - td>>

\* the least k with a * 2^k >= d, for 0 < a < d
ShiftUp(a, d) == CHOOSE k \in 0..30 : a * 2^k >= d /\ (k = 0 \/ a * 2^(k - 1) < d)

\* the greatest k with d * 2^k <= a, for a >= d
ShiftDown(a, d) == CHOOSE k \in 0..30 : d * 2^k <= a /\ a \div 2 < d * 2^k

\* the first PrecBits bits of the quotient a/d, for d <= a < 2 * d
Quotient(a, d) ==
  LET s == CHOOSE k \in 0..30 :
             /\ d \div 2^k < 2^(30 - PrecBits)
             /\ (k = 0 \/ d \div 2^(k - 1) >= 2^(30 - PrecBits))
  IN  ((a \div 2^s) * 2^(PrecBits - 1)) \div (d \div 2^s)

\* x /= 0 cut to PrecBits significant bits: <<m, f>> with |m| about 2^PrecBits
Dyadic(x) ==
  LET a == Abs(x[1])
      d == x[2]
  IN  IF a >= d
      THEN LET k == ShiftDown(a, d)
           IN  <<Sgn(x[1]) * Quotient(a, d * 2^k), x[3] + k - (PrecBits - 1)>>
      ELSE LET k == ShiftUp(a, d)
           IN  <<Sgn(x[1]) * Quotient(a * 2^k, d), x[3] - k - (PrecBits - 1)>>

FitTriple(x) ==
  IF Abs(x[1]) < Lim /\ x[2] < Lim THEN x
  ELSE The({Canon(y[1], 1, y[2]) : y \in {Dyadic(x)}})

Fit(x) == The({FitTriple(a) : a \in {x}})

\* the double n/d
Real(n, d) == Fit(Canon(n, d, 0))

Neg(x) == The({<<-a[1], a[2], a[3]>> : a \in {x}})

Product(x, y) ==
  IF x[1] = 0 \/ y[1] = 0 THEN Zero
  ELSE Fit(Canon(x[1] * y[1], x[2] * y[2], x[3] + y[3]))

Mul(x, y) == The({Product(a, b) : a \in {x}, b \in {y}})

Inv(x) == The({<<Sgn(a[1]) * a[2], Abs(a[1]), -a[3]>> : a \in {x}})

Div(x, y) == Mul(x, Inv(y))

Sum(x, y) ==
  IF x[1] = 0 THEN y
  ELSE IF y[1] = 0 THEN x
  ELSE LET e == Min(x[3], y[3])
           sx == x[3] - e
           sy == y[3] - e
       IN  IF /\ sx <= 28 /\ Abs(x[1]) * y[2] <= 2^28 \div 2^sx
              /\ sy <= 28 /\ Abs(y[1]) * x[2] <= 2^28 \div 2^sy
           THEN Fit(Canon(x[1] * y[2] * 2^sx + y[1] * x[2] * 2^sy, x[2] * y[2], e))
           ELSE LET X == Dyadic(x)
                    Y == Dyadic(y)
                    f == Min(X[2], Y[2])
                IN  IF X[2] - Y[2] > PrecBits + 1 THEN x
                    ELSE IF Y[2] - X[2] > PrecBits + 1 THEN y
                    ELSE Fit(Canon(X[1] * 2^(X[2] - f) + Y[1] * 2^(Y[2] - f), 1, f))

Add(x, y) == The({Sum(a, b) : a \in {x}, b \in {y}})

Sub(x, y) == Add(x, Neg(y))

Positive(x) == x[1] > 0

Num(k) == Real(k, 1)

RECURSIVE Newton(_, _, _)
Newton(x, y, n) ==
  IF n = 0 THEN y
  ELSE The({Newton(a, Div(Add(b, Div(a, b)), Num(2)), n - 1) : a \in {x}, b \in {y}})

\* sqrt of <cmath>
Sqrt(x) == Newton(x, Num(1), 6)

\* the series of exp for |x| <= 1/2
Series(x) ==
  LET t5 == Add(Num(1), Div(x, Num(5)))
      t4 == Add(Num(1), Mul(Div(x, Num(4)), t5))
      t3 == Add(Num(1), Mul(Div(x, Num(3)), t4))
      t2 == Add(Num(1), Mul(Div(x, Num(2)), t3))
  IN  Add(Num(1), Mul(x, t2))

ExpSeries(x) == The({Series(a) : a \in {x}})

Square(x) == The({Mul(a, a) : a \in {x}})

RECURSIVE Halving(_)
Halving(x) ==
  IF x[1] = 0 THEN Num(1)
  ELSE IF Positive(Sub(Real(1, 2), <<Abs(x[1]), x[2], x[3]>>)) THEN ExpSeries(x)
  ELSE Square(Halving(<<x[1], x[2], x[3] - 1>>))

\* exp of <cmath>: exp(x) = exp(x/2)^2 down to the series
Exp(x) == The({Halving(a) : a \in {x}})

(***************************************************************************)
(* Declaration and initialization of parameters.                           *)
(***************************************************************************)
tau_p == Num(30)
tau_i == Num(30)
Qp_max == Real(30, 1000)
Qi_max == Real(60, 1000)
theta_p == Real(-585, 10)
theta_i == Real(-585, 10)
sigma_i == Num(6)
C1 == Div(Real(314159265, 100000000), Sqrt(Num(3)))
alpha_Na == Num(2)
tau_Na == Num(1)
R_pump == Real(9, 100)
Na_eq == Real(95, 10)
gamma_e == Real(70, 1000)
gamma_g == Real(586, 10000)
g_L == Num(1)
g_AMPA == Num(1)
g_GABA == Num(1)
E_AMPA == Num(0)
E_GABA == Num(-70)
E_L_p == Num(-66)
E_L_i == Num(-64)
E_K == Num(-100)
mphi == Num(0)
N_pp == Num(120)
N_ip == Num(72)
N_pi == Num(90)
N_ii == Num(90)

\* the third stage taken at the half step
A_half == <<Real(1, 2), Real(1, 2), Real(1, 2), Num(1)>>

\* iteration parameters for SRK4
A == <<Real(1, 2), Real(1, 2), Num(1), Num(1)>>
B == <<Real(3, 4), Real(3, 4), Num(0), Num(0)>>

\* the fixed step size, defined by the driving program
dt == Real(1, 10)

\* half-activation of the sodium-dependent potassium channel, and the
\* constant of the pump term
Na_half == Real(387, 10)
Na_pump_c == Num(15)

\* element N of a vector, counted from 0 as in the source
At(var, N) == var[N + 1]

BufferNames ==
  {"Vp", "Vi", "Na", "s_ep", "s_ei", "s_gp", "s_gi", "x_ep", "x_ei", "x_gp", "x_gi"}

(***************************************************************************)
(* Helper functions.                                                       *)
(***************************************************************************)
init(value) == <<value, Zero, Zero, Zero, Zero>>

\* the population variables with x_ep started at the sodium level
Population_copied ==
  [Vp   |-> init(E_L_p),
   Vi   |-> init(E_L_i),
   Na   |-> init(Na_eq),
   s_ep |-> init(Zero),
   s_ei |-> init(Zero),
   s_gp |-> init(Zero),
   s_gi |-> init(Zero),
   x_ep |-> init(Na_eq),
   x_ei |-> init(Zero),
   x_gp |-> init(Zero),
   x_gi |-> init(Zero),
   input |-> Zero]

\* the population variables of a new column, and its input
Population ==
  [Vp   |-> init(E_L_p),
   Vi   |-> init(E_L_i),
   Na   |-> init(Na_eq),
   s_ep |-> init(Zero),
   s_ei |-> init(Zero),
   s_gp |-> init(Zero),
   s_gi |-> init(Zero),
   x_ep |-> init(Zero),
   x_ei |-> init(Zero),
   x_gp |-> init(Zero),
   x_gi |-> init(Zero),
   input |-> Zero]

\* set_RNG: one stream of standard normal samples, nothing drawn yet
set_RNG == <<Zero>>

\* Cortical_Column(double* Par)
Cortical_Column(Par) ==
  [f \in DOMAIN Population \cup {"sigma_p", "g_KNa", "dphi", "Rand_vars"} |->
     CASE f = "sigma_p"   -> Par[1]
       [] f = "g_KNa"     -> Par[2]
       [] f = "dphi"      -> Par[3]
       [] f = "Rand_vars" -> set_RNG
       [] OTHER           -> Population[f]]

\* input += I
set_input_accumulate(cols, this, I) == [cols EXCEPT ![this].input = Add(@, I)]

\* input as a static member, shared by all columns
set_input_static(cols, this, I) == [c \in DOMAIN cols |-> [cols[c] EXCEPT !.input = I]]

\* void set_input (double I) {input = I;} on column `this` of `cols`
set_input(cols, this, I) == [cols EXCEPT ![this].input = I]

(***************************************************************************)
(* Firing rates, currents, pump and noise of column o at stage slot N.     *)
(***************************************************************************)
get_Qp(o, N) ==
  Div(Qp_max,
      Add(Num(1), Exp(Neg(Div(Mul(C1, Sub(At(o.Vp, N), theta_p)), o.sigma_p)))))

get_Qi(o, N) ==
  Div(Qi_max,
      Add(Num(1), Exp(Neg(Div(Mul(C1, Sub(At(o.Vi, N), theta_i)), sigma_i)))))

I_ep(o, N) == Mul(Mul(g_AMPA, At(o.s_ep, N)), Sub(At(o.Vp, N), E_AMPA))
I_ei(o, N) == Mul(Mul(g_AMPA, At(o.s_ei, N)), Sub(At(o.Vi, N), E_AMPA))
I_gp(o, N) == Mul(Mul(g_GABA, At(o.s_gp, N)), Sub(At(o.Vp, N), E_GABA))
I_gi(o, N) == Mul(Mul(g_GABA, At(o.s_gi, N)), Sub(At(o.Vi, N), E_GABA))
I_L_p(o, N) == Mul(g_L, Sub(At(o.Vp, N), E_L_p))
I_L_i(o, N) == Mul(g_L, Sub(At(o.Vi, N), E_L_i))

\* fraction of open KNa channels
m_KNa(na) == Div(na, Add(na, Na_half))

I_KNa(o, N) == Mul(Mul(o.g_KNa, m_KNa(At(o.Na, N))), Sub(At(o.Vp, N), E_K))

Na_pump(o, N) ==
  Mul(R_pump, Sub(Div(At(o.Na, N), Add(At(o.Na, N), Na_pump_c)),
                  Div(Na_eq, Add(Na_eq, Na_pump_c))))

\* noise of channel M entering the drive at stage N
noise_xRK(o, N, M) == Mul(At(B, N), Add(mphi, Mul(o.dphi, At(o.Rand_vars, M))))

\* the scale of a noise increment over one step
sqrt_dt == Sqrt(dt)

\* noise of channel M entering the combination
noise_aRK(o, M) == Mul(sqrt_dt, Mul(o.dphi, At(o.Rand_vars, M)))

(***************************************************************************)
(* ODE functions.                                                          *)
(***************************************************************************)
\* second-order synaptic kinetics: gamma^2 * (drive - s) - 2 * gamma * x
PSP(gamma, drive, s, x) ==
  Sub(Mul(Mul(gamma, gamma), Sub(drive, s)), Mul(Mul(Num(2), gamma), x))

\* the stage slot incremented instead of assigned
Stage_accumulate(var, N, derivative) ==
  [var EXCEPT ![N + 2] = Add(@, Add(At(var, 0), Mul(Mul(At(A, N), dt), derivative)))]

\* var[N+1] = var[0] + A[N] * dt * derivative
Stage(var, N, derivative) ==
  [var EXCEPT ![N + 2] = Add(At(var, 0), Mul(Mul(At(A, N), dt), derivative))]

\* set_RK(N): stage N of the scheme, for all eleven variables
set_RK(o, N) ==
  LET Qp == get_Qp(o, N)
      Qi == get_Qi(o, N)
  IN
  [o EXCEPT
     !.Vp   = Stage(@, N, Neg(Div(Add(Add(I_L_p(o, N), I_ep(o, N)),
                                      Add(I_gp(o, N), I_KNa(o, N))), tau_p))),
     !.Vi   = Stage(@, N, Neg(Div(Add(Add(I_L_i(o, N), I_ei(o, N)), I_gi(o, N)), tau_i))),
     !.Na   = Stage(@, N, Sub(Sub(Mul(alpha_Na, Qp), Na_pump(o, N)),
                              Div(At(o.Na, N), tau_Na))),
     !.s_ep = Stage(@, N, At(o.x_ep, N)),
     !.s_ei = Stage(@, N, At(o.x_ei, N)),
     !.s_gp = Stage(@, N, At(o.x_gp, N)),
     !.s_gi = Stage(@, N, At(o.x_gi, N)),
     !.x_ep = Stage(@, N, PSP(gamma_e,
                              Add(Add(Mul(N_pp, Qp), o.input), noise_xRK(o, N, 0)),
                              At(o.s_ep, N), At(o.x_ep, N))),
     !.x_ei = Stage(@, N, PSP(gamma_e, Mul(N_ip, Qp), At(o.s_ei, N), At(o.x_ei, N))),
     !.x_gp = Stage(@, N, PSP(gamma_g, Mul(N_pi, Qi), At(o.s_gp, N), At(o.x_gp, N))),
     !.x_gi = Stage(@, N, PSP(gamma_g, Mul(N_ii, Qi), At(o.s_gi, N), At(o.x_gi, N)))]

\* the textbook combination of four derivative slots: var[0] + (k1 + 2 k2 + 2 k3 + k4)/6
add_RK_derivatives(var) ==
  [var EXCEPT ![1] =
     Add(At(var, 0),
         Div(Add(Add(Add(At(var, 1), Mul(Num(2), At(var, 2))),
                     Mul(Num(2), At(var, 3))),
                 At(var, 4)),
             Num(6)))]

\* the weights of slots 2 and 3 exchanged
add_RK_exchanged(var) ==
  [var EXCEPT ![1] =
     Div(Add(Add(Add(Add(Mul(Num(-3), At(var, 0)), Mul(Num(4), At(var, 1))),
                     Mul(Num(2), At(var, 2))),
                 Mul(Num(2), At(var, 3))),
             At(var, 4)),
         Num(6))]

\* the combination followed by a reset of the stage slots
add_RK_reset(var) ==
  init(Div(Add(Add(Add(Add(Mul(Num(-3), At(var, 0)), Mul(Num(2), At(var, 1))),
                       Mul(Num(4), At(var, 2))),
                   Mul(Num(2), At(var, 3))),
               At(var, 4)),
           Num(6)))

\* inline void add_RK (std::vector<double>& var)
add_RK(var) ==
  [var EXCEPT ![1] =
     Div(Add(Add(Add(Add(Mul(Num(-3), At(var, 0)), Mul(Num(2), At(var, 1))),
                     Mul(Num(4), At(var, 2))),
                 Mul(Num(2), At(var, 3))),
             At(var, 4)),
         Num(6))]

\* the noise term added at the sum and again at the result
add_RK_noise_twice(o, var, noise) ==
  [var EXCEPT ![1] =
     Add(Div(Add(Add(Add(Add(Add(Mul(Num(-3), At(var, 0)), Mul(Num(2), At(var, 1))),
                             Mul(Num(4), At(var, 2))),
                         Mul(Num(2), At(var, 3))),
                     At(var, 4)),
                 noise_aRK(o, noise)),
             Num(6)),
         noise_aRK(o, noise))]

\* inline void add_RK_noise (std::vector<double>& var, unsigned noise)
add_RK_noise(o, var, noise) ==
  [var EXCEPT ![1] =
     Add(Div(Add(Add(Add(Add(Mul(Num(-3), At(var, 0)), Mul(Num(2), At(var, 1))),
                         Mul(Num(4), At(var, 2))),
                     Mul(Num(2), At(var, 3))),
                 At(var, 4)),
             Num(6)),
         noise_aRK(o, noise))]

\* add_RK(void): the combination, for all eleven variables
add_RK_all(o) ==
  [o EXCEPT
     !.Vp   = add_RK(@),
     !.Vi   = add_RK(@),
     !.Na   = add_RK(@),
     !.s_ep = add_RK(@),
     !.s_ei = add_RK(@),
     !.s_gp = add_RK(@),
     !.s_gi = add_RK(@),
     !.x_ep = add_RK_noise(o, @, 0),
     !.x_ei = add_RK(@),
     !.x_gp = add_RK(@),
     !.x_gi = add_RK(@)]

(***************************************************************************)
(* Random number generators.                                               *)
(***************************************************************************)
\* one stream shared by all columns
StreamOf_shared(this) == 1

\* a column draws from the stream it owns (MTRands is a member)
StreamOf(this) == this

\* randomStreamNormal: a seeded generator; equal seeds give equal streams
Sample(g) == Num((g % 3) - 1)
Advance(g) == (5 * g + 3) % 8

Seeds == 0..(NSeeds - 1)
Samples == {Num(-1), Num(0), Num(1)}

(***************************************************************************)
(* The state.                                                              *)
(*   col      the columns: each a record of the members of the class       *)
(*   MTRands  the noise streams: generator state and samples drawn         *)
(*   pc, i    where each column is in iterate_ODE, and its stage counter   *)
(*   steps    completed calls of iterate_ODE, per column                   *)
(*   call     the member function that ran last, its column, its argument  *)
(*   pending  the argument of the last set_input since the last step       *)
(*   script   per column, the pending input found at the start of each step*)
(*   seed     the seed each column's stream was constructed with           *)
(*   start    the column as it was when its current step drew its noise    *)
(*   var, pre, op   a buffer under add_RK / add_RK_noise, the buffer       *)
(*            before, and which of the two ran                             *)
(***************************************************************************)
VARIABLES col, MTRands, pc, i, steps, call, pending, script, seed, start, var, pre, op

vars == <<col, MTRands, pc, i, steps, call, pending, script, seed, start, var, pre, op>>

Inputs == {Num(k) : k \in 0..MaxInput}

\* the parameter lists Par = {sigma_p, g_KNa, dphi} handed to the constructor
Pars == {<<Num(4), Real(133, 100), Num(0)>>, <<Num(4), Real(133, 100), Num(2)>>}

StepBound == IF Cardinality(DOMAIN col) = 1 THEN MaxSteps ELSE MaxPairSteps

\* no set_input since the last step
NoInput == <<>>

NoCall == [op |-> "none", this |-> 0, arg |-> Zero]

Construct(Cols, P, S) ==
  /\ col = [c \in Cols |-> Cortical_Column(P[c])]
  /\ MTRands = [c \in Cols |-> [state |-> S[c], drawn |-> 0]]
  /\ seed = [c \in Cols |-> S[StreamOf(c)]]
  /\ pc = [c \in Cols |-> "idle"]
  /\ i = [c \in Cols |-> 0]
  /\ steps = [c \in Cols |-> 0]
  /\ call = NoCall
  /\ pending = [c \in Cols |-> NoInput]
  /\ script = [c \in Cols |-> <<>>]
  /\ start = [c \in Cols |-> Cortical_Column(P[c])]

NoBuffer ==
  /\ var = <<>>
  /\ pre = <<>>
  /\ op = "none"

\* one column
Init ==
  /\ \E P \in [{1} -> Pars], S \in [{1} -> Seeds] : Construct({1}, P, S)
  /\ NoBuffer

\* two columns
InitPair ==
  /\ \E P \in [{1, 2} -> Pars], S \in [{1, 2} -> Seeds] : Construct({1, 2}, P, S)
  /\ NoBuffer

(***************************************************************************)
(* Member functions.                                                       *)
(***************************************************************************)
\* set_input(I), called between steps, for a step still to be run
SetInput(this, I) ==
  /\ pc[this] = "idle"
  /\ steps[this] < StepBound
  /\ col' = set_input(col, this, I)
  /\ pending' = [pending EXCEPT ![this] = I]
  /\ call' = [op |-> "set_input", this |-> this, arg |-> I]
  /\ UNCHANGED <<MTRands, pc, i, steps, script, seed, start, var, pre, op>>

\* iterate_ODE, first part: the noise sample of this step is drawn
IterateDraw(this) ==
  /\ pc[this] = "idle"
  /\ steps[this] < StepBound
  /\ LET s == StreamOf(this)
         g == MTRands[s]
         o == [col[this] EXCEPT !.Rand_vars = <<Sample(g.state)>>]
     IN  /\ col' = [col EXCEPT ![this] = o]
         /\ MTRands' = [MTRands EXCEPT ![s] = [state |-> Advance(g.state),
                                               drawn |-> g.drawn + 1]]
         /\ start' = [start EXCEPT ![this] = o]
  /\ pc' = [pc EXCEPT ![this] = "set_RK"]
  /\ i' = [i EXCEPT ![this] = 0]
  /\ script' = [script EXCEPT ![this] = Append(@, pending[this])]
  /\ pending' = [pending EXCEPT ![this] = NoInput]
  /\ call' = [op |-> "iterate_ODE", this |-> this, arg |-> Zero]
  /\ UNCHANGED <<steps, seed, var, pre, op>>

\* iterate_ODE, the loop: for (i = 0; i < 4; ++i) set_RK(i)
IterateStage(this) ==
  /\ pc[this] = "set_RK"
  /\ col' = [col EXCEPT ![this] = set_RK(@, i[this])]
  /\ i' = [i EXCEPT ![this] = @ + 1]
  /\ pc' = [pc EXCEPT ![this] = IF i[this] + 1 < 4 THEN "set_RK" ELSE "add_RK"]
  /\ call' = [op |-> "iterate_ODE", this |-> this, arg |-> Zero]
  /\ UNCHANGED <<MTRands, steps, pending, script, seed, start, var, pre, op>>

\* iterate_ODE, last part: add_RK()
IterateAdd(this) ==
  /\ pc[this] = "add_RK"
  /\ col' = [col EXCEPT ![this] = add_RK_all(@)]
  /\ i' = [i EXCEPT ![this] = 0]
  /\ pc' = [pc EXCEPT ![this] = "idle"]
  /\ steps' = [steps EXCEPT ![this] = @ + 1]
  /\ call' = [op |-> "iterate_ODE", this |-> this, arg |-> Zero]
  /\ UNCHANGED <<MTRands, pending, script, seed, start, var, pre, op>>

SetInputCall == \E this \in DOMAIN col : \E I \in Inputs : SetInput(this, I)
DrawCall == \E this \in DOMAIN col : IterateDraw(this)
StageCall == \E this \in DOMAIN col : IterateStage(this)
AddCall == \E this \in DOMAIN col : IterateAdd(this)

Next == SetInputCall \/ DrawCall \/ StageCall \/ AddCall

\* one column, driven by set_input and iterate_ODE
Spec == Init /\ [][Next]_vars

\* two columns, their calls interleaved
SpecPair == InitPair /\ [][Next]_vars

(***************************************************************************)
(* The combination on its own: add_RK and add_RK_noise applied to a        *)
(* buffer of a column whose noise of this step has been drawn.             *)
(***************************************************************************)
\* a value that fills the exact range, so that its multiples are rounded
Long == Real(Lim - 1, 1)

\* the values a slot is given: small whole numbers, a third, a long value
Vals == {Num(n) : n \in (-MaxNum)..MaxNum} \cup {Real(1, 3), Long}

InitRK ==
  /\ \E P \in Pars, s \in Samples :
       /\ col = [c \in {1} |-> [Cortical_Column(P) EXCEPT !.Rand_vars = <<s>>]]
       /\ start = [c \in {1} |-> Cortical_Column(P)]
  /\ MTRands = [c \in {1} |-> [state |-> 0, drawn |-> 1]]
  /\ seed = [c \in {1} |-> 0]
  /\ pc = [c \in {1} |-> "add_RK"]
  /\ i = [c \in {1} |-> 4]
  /\ steps = [c \in {1} |-> 0]
  /\ call = NoCall
  /\ pending = [c \in {1} |-> NoInput]
  /\ script = [c \in {1} |-> <<NoInput>>]
  /\ pre \in [1..5 -> Vals]
  /\ var = pre
  /\ op = "none"

ApplyAddRK ==
  /\ op = "none"
  /\ var' = add_RK(var)
  /\ op' = "add_RK"
  /\ UNCHANGED <<col, MTRands, pc, i, steps, call, pending, script, seed, start, pre>>

ApplyAddRKNoise ==
  /\ op = "none"
  /\ var' = add_RK_noise(col[1], var, 0)
  /\ op' = "add_RK_noise"
  /\ UNCHANGED <<col, MTRands, pc, i, steps, call, pending, script, seed, start, pre>>

NextRK == ApplyAddRK \/ ApplyAddRKNoise

SpecRK == InitRK /\ [][NextRK]_vars

(***************************************************************************)
(* Properties of the combination (specification SpecRK).                   *)
(***************************************************************************)
StagesAllOne == \A n \in 1..4 : At(pre, n) = Num(1)

\* C1 as stated: when slots 1..4 of a buffer all hold 1, add_RK leaves
\* current + 1 in slot 0.
C1_CurrentPlusOne ==
  (op = "add_RK" /\ StagesAllOne) => At(var, 0) = Add(At(pre, 0), Num(1))

\* a value with eight bits to spare: what the combination computes from
\* such values is not rounded
Short(x) == Abs(x[1]) * 2^8 < Lim /\ x[2] * 2^8 < Lim

\* C1: when slots 1..4 of a buffer all hold 1, add_RK leaves
\* (-3 * current + 2 + 4 + 2 + 1)/6 in slot 0, that is 3/2 - current/2 where
\* nothing is rounded, which is current + 1 only for current = 1/3.
C1_Combination ==
  (op = "add_RK" /\ StagesAllOne) =>
      /\ At(var, 0) =
            Div(Add(Add(Add(Add(Mul(Num(-3), At(pre, 0)), Num(2)), Num(4)), Num(2)), Num(1)),
                Num(6))
      /\ Short(At(pre, 0)) => At(var, 0) = Sub(Real(3, 2), Div(At(pre, 0), Num(2)))
      /\ (At(var, 0) = Add(At(pre, 0), Num(1))) <=> (At(pre, 0) = Real(1, 3))

C1_Witness ==
  /\ op = "add_RK"
  /\ StagesAllOne
  /\ At(pre, 0) = Num(0)
  /\ At(var, 0) = Real(3, 2)

\* C4: add_RK_noise leaves in slot 0 the value add_RK would leave there plus
\* the noise term noise_aRK of the given channel, added once, and leaves the
\* stage slots as they were.
C4_NoiseAddedOnce ==
  (op = "add_RK_noise") =>
      /\ At(var, 0) = Add(At(add_RK(pre), 0), noise_aRK(col[1], 0))
      /\ \A n \in 1..4 : At(var, n) = At(add_RK(pre), n)

C4_Witness ==
  /\ op = "add_RK_noise"
  /\ noise_aRK(col[1], 0) /= Zero
  /\ At(pre, 1) /= At(pre, 2)
  /\ At(var, 0) /= At(add_RK(pre), 0)

\* the stage increments h1..h4 read off a buffer whose slot n holds the
\* stage point y + a_n * h_n, a = (1/2, 1/2, 1, 1)
Increment(buf, n) ==
  IF n <= 2 THEN Mul(Num(2), Sub(At(buf, n), At(buf, 0)))
            ELSE Sub(At(buf, n), At(buf, 0))

ClassicalRK4(buf) ==
  Add(At(buf, 0),
      Div(Add(Add(Add(Increment(buf, 1), Mul(Num(2), Increment(buf, 2))),
                  Mul(Num(2), Increment(buf, 3))),
              Increment(buf, 4)),
          Num(6)))

AllEqual(buf) == \A n \in 1..4 : At(buf, n) = At(buf, 0)

Magnitude(x) == <<Abs(x[1]), x[2], x[3]>>

\* |x - y| <= (|b0| + ... + |b4|) * 2^-(PrecBits - 5)
Close(x, y, buf) ==
  LET size == Add(Add(Add(Add(Magnitude(At(buf, 0)), Magnitude(At(buf, 1))),
                          Magnitude(At(buf, 2))),
                      Magnitude(At(buf, 3))),
                  Magnitude(At(buf, 4)))
      tolerance == <<size[1], size[2], size[3] - (PrecBits - 5)>>
  IN  ~Positive(Sub(Magnitude(Sub(x, y)), tolerance))

Idle(c) == pc[c] = "idle"

\* column c has been given no stimulus and no noise
Undriven(c) ==
  /\ col[c].dphi = Zero
  /\ col[c].input = Zero
  /\ pending[c] \in {NoInput, Zero}
  /\ \A n \in 1..Len(script[c]) : script[c][n] \in {NoInput, Zero}

\* C2 as stated: with input 0 and dphi 0 the constructed state is a fixed
\* point, the current slots keep their initial values step after step.
C2_SteadyState ==
  \A c \in DOMAIN col :
     (Undriven(c) /\ Idle(c)) =>
         \A b \in BufferNames : At(col[c][b], 0) = At(Population[b], 0)

\* C2: with input 0 and dphi 0 the constructed state is not a fixed point.
\* At it the derivatives of the four s_* vanish (stage 1 of the first step
\* leaves their slot 1 equal to slot 0), but the firing rates at the resting
\* potentials are positive, so stage 1 puts a positive value in slot 1 of the
\* four x_*, and after the first step their current slots are positive.
C2_InitialDrift ==
  \A c \in DOMAIN col :
     Undriven(c) =>
        /\ (steps[c] = 0 /\ (pc[c] = "add_RK" \/ (pc[c] = "set_RK" /\ i[c] >= 1))) =>
              /\ \A b \in {"s_ep", "s_ei", "s_gp", "s_gi"} :
                    At(col[c][b], 1) = At(col[c][b], 0)
              /\ \A b \in {"x_ep", "x_ei", "x_gp", "x_gi"} :
                    /\ At(col[c][b], 0) = Zero
                    /\ Positive(At(col[c][b], 1))
        /\ (steps[c] = 1 /\ Idle(c)) =>
              \A b \in {"x_ep", "x_ei", "x_gp", "x_gi"} : Positive(At(col[c][b], 0))

C2_Witness ==
  /\ Undriven(1)
  /\ steps[1] = 1
  /\ Idle(1)
  /\ Len(script[1]) = 1
  /\ Positive(At(col[1].x_ep, 0))
  /\ Positive(At(col[1].x_gi, 0))

\* C6: set_input(I) replaces the stored input by I and changes nothing else
\* of the column (buffers, parameters, noise sample, generator); the step
\* that follows runs with that input.
C6_SetInputFrame ==
  [][\A c \in DOMAIN col :
        /\ (call'.op = "set_input" /\ call'.this = c) =>
              /\ col'[c].input = call'.arg
              /\ \A f \in (DOMAIN col[c]) \ {"input"} : col'[c][f] = col[c][f]
              /\ MTRands' = MTRands
              /\ pc' = pc
        /\ (Idle(c) /\ ~Idle(c)' /\ pending[c] /= NoInput) =>
              /\ col'[c].input = pending[c]
              /\ start'[c].input = pending[c]
    ]_vars

C6_Witness ==
  /\ call.op = "set_input"
  /\ call.arg = Num(1)
  /\ steps[1] = 1
  /\ col[1].input = Num(1)
  /\ script[1] = <<Num(0)>>
  /\ At(col[1].x_ep, 0) /= Zero

\* the step size multipliers of the four stages, as the scheme prescribes
StageFactor(n) == IF n <= 1 THEN Real(1, 2) ELSE Num(1)

Drawn(c) == MTRands[c].drawn

\* C7: in iterate_ODE the noise is drawn once, first; then stages 1..4 run
\* in order, stage n writing slot n of the buffers from slot 0 and slot n-1
\* with the multiplier A[n-1]; the current slots are written only afterwards,
\* by the combination that ends the step.
C7_StepOrder ==
  [][\A c \in DOMAIN col :
        /\ (Drawn(c)' /= Drawn(c)) =>
              /\ Idle(c) /\ pc'[c] = "set_RK" /\ i'[c] = 0
              /\ Drawn(c)' = Drawn(c) + 1
        /\ (Idle(c) /\ ~Idle(c)') => Drawn(c)' = Drawn(c) + 1
        /\ \A b \in BufferNames : \A n \in 1..4 :
              (At(col'[c][b], n) /= At(col[c][b], n)) =>
                  (pc[c] = "set_RK" /\ i[c] = n - 1)
        /\ (pc[c] = "set_RK" /\ call'.this = c) =>
              /\ i[c] \in 0..3
              /\ i'[c] = i[c] + 1
              /\ pc'[c] = IF i[c] = 3 THEN "add_RK" ELSE "set_RK"
              /\ At(col'[c].s_ep, i[c] + 1) =
                    Add(At(col[c].s_ep, 0),
                        Mul(Mul(StageFactor(i[c]), dt), At(col[c].x_ep, i[c])))
        /\ \A b \in BufferNames :
              (At(col'[c][b], 0) /= At(col[c][b], 0)) =>
                  (pc[c] = "add_RK" /\ i[c] = 4 /\ Idle(c)')
    ]_vars

C7_Witness ==
  /\ Idle(1)
  /\ steps[1] = 2
  /\ Drawn(1) = 2
  /\ At(col[1].s_ep, 3) /= At(col[1].s_ep, 2)
  /\ At(col[1].s_ep, 0) /= Zero

\* a column whose stage slots have all been cleared
Fresh(o) ==
  [f \in DOMAIN o |-> IF f \in BufferNames THEN init(At(o[f], 0)) ELSE o[f]]

\* a whole step, run after the draw
WholeStep(o) == add_RK_all(set_RK(set_RK(set_RK(set_RK(o, 0), 1), 2), 3))

\* C8: the current values a step leaves depend on the current values, the
\* input, the parameters and the noise sample the step began with, and not
\* on what slots 1..4 held then: the step started from cleared stage slots
\* gives the same current values.
C8_StaleSlotsIgnored ==
  \A c \in DOMAIN col :
     (Idle(c) /\ steps[c] >= 1) =>
         \A b \in BufferNames :
            At(col[c][b], 0) = At(WholeStep(Fresh(start[c]))[b], 0)

C8_Witness ==
  /\ Idle(1)
  /\ steps[1] = 2
  /\ At(start[1].x_ep, 1) /= Zero
  /\ At(start[1].s_ep, 4) /= Zero
  /\ At(col[1].x_ep, 0) /= At(start[1].x_ep, 0)

\* C9: every buffer has five slots at all times, and the combination that
\* ends a step writes slot 0 only: slots 1..4 keep the stage values.
C9_BufferShape ==
  /\ [](\A c \in DOMAIN col : \A b \in BufferNames : Len(col[c][b]) = 5)
  /\ [][\A c \in DOMAIN col :
          (pc[c] = "add_RK" /\ Idle(c)') =>
              \A b \in BufferNames : \A n \in 1..4 :
                 At(col'[c][b], n) = At(col[c][b], n)
       ]_vars

C9_Witness ==
  /\ Idle(1)
  /\ steps[1] = 1
  /\ \A b \in BufferNames : Len(col[1][b]) = 5
  /\ At(col[1].x_ep, 1) /= Zero
  /\ At(col[1].x_ep, 0) /= Zero

(***************************************************************************)
(* Properties of two columns (specification SpecPair).                     *)
(***************************************************************************)
SameParameters(c1, c2) ==
  /\ col[c1].sigma_p = col[c2].sigma_p
  /\ col[c1].g_KNa = col[c2].g_KNa
  /\ col[c1].dphi = col[c2].dphi

C5_Isolated ==
  [][\A c \in DOMAIN col :
        (call'.this /= c) =>
            /\ col'[c] = col[c]
            /\ MTRands'[c] = MTRands[c]
            /\ pc'[c] = pc[c]
            /\ i'[c] = i[c]
            /\ steps'[c] = steps[c]
    ]_vars

C5_Witness ==
  /\ call.this = 1
  /\ call.op = "iterate_ODE"
  /\ col[1].input = Num(1)
  /\ col[2].input = Num(0)
  /\ steps[1] = 1
  /\ pc[2] = "set_RK"
  /\ i[2] = 2
  /\ Drawn(1) = 1 /\ Drawn(2) = 1

====
